---- MODULE Spec2Model ----
(***************************************************************************)
(* The drug-treatment-outcome inference service (src/src/api/main.py) and  *)
(* the part of the preprocessing job that fits the label encoders          *)
(* (src/src/data/preprocess.py).                                           *)
(*                                                                         *)
(* Label strings are modelled by the naturals 1..MaxLabel, ordered as the  *)
(* strings are ordered; a dataframe cell is a triple <<kind, a, b>>:       *)
(* <<"str", l, 0>> the label l, <<"num", a, b>> the number a/b.            *)
(***************************************************************************)
EXTENDS Integers, Sequences, FiniteSets, TLC

\* ---------------------------------------------------------------- bounds
MaxLabel == 2          \* label strings per categorical field
MaxInFlight == 2       \* request slots served concurrently
MaxRequests == 2       \* requests received over a run
MaxVersion == 2        \* artifact sets the training pipeline has produced
MaxLoads == 2          \* calls of load_artifacts over a run (SpecReload)

\* ------------------------------------------------------- program constants
None == 0
API_KEY == "secret-token"
NoHeader == "<absent>"
Internal_server_error == "Internal server error"
Model_not_loaded == "Model not loaded"
Could_not_validate_credentials == "Could not validate credentials"

\* class PredictionRequest: the fields in declaration order
PredictionRequest ==
    <<"Age", "Gender", "Condition", "Drug_Name", "Dosage_mg",
      "Treatment_Duration_days", "Side_Effects">>

cat_cols == <<"Gender", "Condition", "Drug_Name", "Side_Effects">>

num_cols == <<"Age", "Dosage_mg", "Treatment_Duration_days">>

\* mutant: the columns in another order (numeric first)
expected_cols_numeric_first ==
    <<"Age", "Dosage_mg", "Treatment_Duration_days",
      "Gender", "Condition", "Drug_Name", "Side_Effects">>

expected_cols ==
    <<"Age", "Gender", "Condition", "Drug_Name", "Dosage_mg",
      "Treatment_Duration_days", "Side_Effects">>

Range(s) == {s[i] : i \in 1..Len(s)}

Str(l) == <<"str", l, 0>>
Num(a, b) == <<"num", a, b>>

\* ------------------------------------------------- ordered dicts / frames
\* A dict, and a one-row DataFrame, is a sequence of <<key, value>> pairs in
\* insertion (column) order.
Has(d, k) == \E i \in 1..Len(d) : d[i][1] = k

Get(d, k) == d[CHOOSE i \in 1..Len(d) : d[i][1] = k][2]

\* df[col] = v : an existing column keeps its position
SetCol(df, col, v) ==
    [i \in 1..Len(df) |-> IF df[i][1] = col THEN <<col, v>> ELSE df[i]]

\* df[cols] : the named columns, in the order asked for
Select(df, cols) == [i \in 1..Len(cols) |-> <<cols[i], Get(df, cols[i])>>]

Values(df) == [i \in 1..Len(df) |-> df[i][2]]

\* ------------------------------------------------------------ preprocess
Labels == 1..MaxLabel

Versions == 1..MaxVersion

\* pd.read_csv(input_path): the label strings occurring in a categorical
\* column of the raw dataset that artifact set v was fitted on.  Column j of
\* cat_cols lacks the label (v + j) % (MaxLabel + 1), when that is a label.
RawColumn(v, col) ==
    LET j == CHOOSE i \in 1..Len(cat_cols) : cat_cols[i] = col
    IN  Labels \ {(v + j) % (MaxLabel + 1)}

RECURSIVE Sorted(_)
Sorted(S) ==
    IF S = {} THEN <<>>
    ELSE LET m == CHOOSE x \in S : \A y \in S : x <= y
         IN  <<m>> \o Sorted(S \ {m})

\* LabelEncoder().fit: classes_ is the sorted distinct labels
LabelEncoder_fit(column) == Sorted(column)

\* the loop over cat_cols that fills the encoders dict, in cat_cols order
preprocess(v) ==
    [j \in 1..Len(cat_cols) |->
        <<cat_cols[j], LabelEncoder_fit(RawColumn(v, cat_cols[j]))>>]

\* StandardScaler fitted on X_train[num_cols]: mean_ and scale_ by position
StandardScaler_fit(v) ==
    [mean_ |-> <<40 + v, 200 + v, 20 + v>>, scale_ |-> <<10, 50, 5>>]

\* what joblib.load returns for each of the three paths, for artifact set v
EncodersOf(v) == preprocess(v)
ScalerOf(v) == StandardScaler_fit(v)

\* ------------------------------------------------- library calls at inference
Known(classes, cell) == cell[1] = "str" /\ cell[2] \in Range(classes)

\* le.transform: the position of the label in classes_, from 0; callers test
\* Known first (an unknown label raises ValueError)
le_transform(classes, cell) ==
    Num((CHOOSE i \in 1..Len(classes) : classes[i] = cell[2]) - 1, 1)

\* scaler.transform(X): (x - mean_[i]) / scale_[i], column by position
scaler_transform(sc, X) ==
    [i \in 1..Len(X) |->
        Num(X[i][2][2] - sc.mean_[i] * X[i][2][3], X[i][2][3] * sc.scale_[i])]

\* model.predict(df): the trained regressor is a fixed function of the row
model_predict(m, df) == <<"score", m, Values(df)>>

\* ---------------------------------------------------------- request inputs
Ages == {50}
Dosages == {250}
Durations == {30}

Reverse(s) == [i \in 1..Len(s) |-> s[Len(s) + 1 - i]]

\* the key orders a caller's JSON object comes in
KeyOrders == {PredictionRequest, Reverse(PredictionRequest)}

RawRecords ==
    {<< <<"Age", Num(a, 1)>>, <<"Gender", Str(g)>>, <<"Condition", Str(c)>>,
        <<"Drug_Name", Str(d)>>, <<"Dosage_mg", Num(dose, 1)>>,
        <<"Treatment_Duration_days", Num(dur, 1)>>, <<"Side_Effects", Str(s)>> >> :
        a \in Ages, g \in Labels, c \in Labels, d \in Labels,
        dose \in Dosages, dur \in Durations, s \in Labels}

\* JSON bodies: every record in every key order, and the empty object
Bodies == {Select(rec, ko) : rec \in RawRecords, ko \in KeyOrders} \cup {<<>>}

Headers == {API_KEY, "guess", NoHeader}

Statuses == {200, 400, 403, 422, 500, 503}

\* ------------------------------------------------------------------ state
VARIABLES
    model, encoders, scaler,   \* the global artifacts: None, or the artifact set loaded
    disk,                      \* the artifact set at MODEL_PATH, ENCODERS_PATH, SCALER_PATH
    loadPc,                    \* where load_artifacts stands
    loads,                     \* calls of load_artifacts so far
    started,                   \* the startup event has completed: requests are served
    req,                       \* per slot, the request a worker thread is handling
    received,                  \* requests accepted so far
    REQUEST_COUNT,             \* the counter, by status label
    REQUEST_LATENCY,           \* the histogram: number of observations
    health                     \* status of the last /health response (0: none yet)

vars ==
    <<model, encoders, scaler, disk, loadPc, loads, started, req, received,
      REQUEST_COUNT, REQUEST_LATENCY, health>>

Slots == 1..MaxInFlight

NoDetail == [msg |-> "", col |-> "", value |-> Str(0)]

Detail(msg) == [msg |-> msg, col |-> "", value |-> Str(0)]

Idle ==
    [pc |-> "idle", header |-> NoHeader, body |-> <<>>, data |-> <<>>, df |-> <<>>,
     status |-> 0, detail |-> NoDetail, score |-> <<>>, vec |-> <<>>,
     readyAt |-> <<None, None, None>>, enc |-> None, sc |-> None, mdl |-> None,
     raised |-> "", steps |-> <<>>, incs |-> <<>>, observed |-> 0]

Init ==
    /\ model = None
    /\ encoders = None
    /\ scaler = None
    /\ disk \in Versions
    /\ loadPc = "model"
    /\ loads = 1
    /\ started = FALSE
    /\ req = [r \in Slots |-> Idle]
    /\ received = 0
    /\ REQUEST_COUNT = [s \in Statuses |-> 0]
    /\ REQUEST_LATENCY = 0
    /\ health = 0

reqVars == <<req, received, REQUEST_COUNT, REQUEST_LATENCY, health>>

loadVars == <<model, encoders, scaler, disk, loadPc, loads, started>>

\* ---------------------------------------------------------- load_artifacts
\* model = joblib.load(MODEL_PATH); an exception ends the function (logged)
LoadModel(ok) ==
    /\ loadPc = "model"
    /\ IF ok THEN model' = disk /\ loadPc' = "encoders"
             ELSE UNCHANGED model /\ loadPc' = "done"
    /\ started' = (started \/ ~ok)
    /\ UNCHANGED <<encoders, scaler, disk, loads, reqVars>>

\* encoders = joblib.load(ENCODERS_PATH)
LoadEncoders(ok) ==
    /\ loadPc = "encoders"
    /\ IF ok THEN encoders' = disk /\ loadPc' = "scaler"
             ELSE UNCHANGED encoders /\ loadPc' = "done"
    /\ started' = (started \/ ~ok)
    /\ UNCHANGED <<model, scaler, disk, loads, reqVars>>

\* scaler = joblib.load(SCALER_PATH); the function returns either way
LoadScaler(ok) ==
    /\ loadPc = "scaler"
    /\ IF ok THEN scaler' = disk ELSE UNCHANGED scaler
    /\ loadPc' = "done"
    /\ started' = TRUE
    /\ UNCHANGED <<model, encoders, disk, loads, reqVars>>

\* ------------------------------------------------------------ the gateway
Raised403 == "HTTPException(403)"

\* mutant: an absent header is let through
get_api_key_absent_ok(api_key_header) ==
    IF api_key_header = API_KEY \/ api_key_header = NoHeader
    THEN api_key_header ELSE Raised403

\* get_api_key: the header value, or HTTPException(403)
get_api_key(api_key_header) ==
    IF api_key_header = API_KEY THEN api_key_header ELSE Raised403

\* request: PredictionRequest - the body must carry every declared field
Validates(body) == \A f \in Range(PredictionRequest) : Has(body, f)

\* the parsed model, and request.dict(): the fields in declaration order
request_dict(body) == Select(body, PredictionRequest)

\* mutant: only the model is tested, as /health does
NotInitialized_model_only(m, e, s) == m = None

\* if not model or not encoders or not scaler
NotInitialized(m, e, s) == m = None \/ e = None \/ s = None

HTTPException(status, detail) ==
    [type |-> "HTTPException", status |-> status, detail |-> detail]

\* an exception raised by a library call
LibraryError(text) == [type |-> "Exception", status |-> 0, detail |-> Detail(text)]

UnknownCategory(col, data) ==
    HTTPException(400, [msg |-> "Unknown category for", col |-> col,
                        value |-> Get(data, col)])

\* mutant: every field is tried and the last unknown one is reported
RECURSIVE EncodeAll(_, _, _, _, _)
EncodeAll(items, i, df, data, bad) ==
    IF i > Len(items)
    THEN IF bad = "" THEN [ok |-> TRUE, df |-> df, exc |-> HTTPException(0, NoDetail)]
         ELSE [ok |-> FALSE, df |-> df, exc |-> UnknownCategory(bad, data)]
    ELSE LET col == items[i][1]
             le  == items[i][2]
         IN  IF Has(df, col) /\ Known(le, Get(df, col))
             THEN EncodeAll(items, i + 1,
                            SetCol(df, col, le_transform(le, Get(df, col))), data, bad)
             ELSE EncodeAll(items, i + 1, df, data, IF Has(df, col) THEN col ELSE bad)

EncodeLoop_report_last(items, i, df, data) == EncodeAll(items, i, df, data, "")

\* mutant: an unknown label is logged and the column left as it is
RECURSIVE EncodeLoop_swallow(_, _, _, _)
EncodeLoop_swallow(items, i, df, data) ==
    IF i > Len(items) THEN [ok |-> TRUE, df |-> df, exc |-> HTTPException(0, NoDetail)]
    ELSE LET col == items[i][1]
             le  == items[i][2]
         IN  IF Has(df, col) /\ Known(le, Get(df, col))
             THEN EncodeLoop_swallow(items, i + 1,
                      SetCol(df, col, le_transform(le, Get(df, col))), data)
             ELSE EncodeLoop_swallow(items, i + 1, df, data)

\* for col, le in encoders.items(): df[col] = le.transform(df[col]), the first
\* ValueError becoming HTTPException(400) naming col and data[col]
RECURSIVE EncodeLoop(_, _, _, _)
EncodeLoop(items, i, df, data) ==
    IF i > Len(items) THEN [ok |-> TRUE, df |-> df, exc |-> HTTPException(0, NoDetail)]
    ELSE LET col == items[i][1]
             le  == items[i][2]
         IN  IF ~Has(df, col) THEN EncodeLoop(items, i + 1, df, data)
             ELSE IF Known(le, Get(df, col))
                  THEN EncodeLoop(items, i + 1,
                                  SetCol(df, col, le_transform(le, Get(df, col))), data)
                  ELSE [ok |-> FALSE, df |-> df, exc |-> UnknownCategory(col, data)]

\* df[num_cols] = scaler.transform(df[num_cols])
RECURSIVE AssignCols(_, _, _, _)
AssignCols(df, cols, arr, i) ==
    IF i > Len(cols) THEN df
    ELSE AssignCols(SetCol(df, cols[i], arr[i]), cols, arr, i + 1)

ScaleFrame(sc, df) ==
    AssignCols(df, num_cols, scaler_transform(sc, Select(df, num_cols)), 1)

\* mutant: the catch-all clause also takes the HTTPException
except_clauses_catch_all(exc) ==
    [status |-> 500, detail |-> Detail(Internal_server_error), count |-> <<500>>]

\* except HTTPException as he: raise he
\* except Exception as e: count the 500 and raise the opaque 500
except_clauses(exc) ==
    IF exc.type = "HTTPException"
    THEN [status |-> exc.status, detail |-> exc.detail, count |-> <<>>]
    ELSE [status |-> 500, detail |-> Detail(Internal_server_error), count |-> <<500>>]

\* if model is None: 503, else healthy
health_check(m) == IF m = None THEN 503 ELSE 200

RECURSIVE Bump(_, _)
Bump(counter, labels) ==
    IF labels = <<>> THEN counter
    ELSE Bump([counter EXCEPT ![Head(labels)] = @ + 1], Tail(labels))

Free(r) == req[r].pc \in {"idle", "done"}

Accepting == started /\ received < MaxRequests

\* the response leaves: raise HTTPException / return
Respond(rec, status, detail, counted) ==
    [rec EXCEPT !.pc = "done", !.status = status, !.detail = detail,
                !.incs = @ \o counted,
                !.steps = @ \o <<IF status = 200 THEN "respond" ELSE "error">>]

\* an exception raised inside the try block
Raise(r, rec, exc) ==
    LET out == except_clauses(exc)
    IN  /\ req' = [req EXCEPT ![r] =
                     Respond([rec EXCEPT !.raised = exc.type],
                             out.status, out.detail, out.count)]
        /\ REQUEST_COUNT' = Bump(REQUEST_COUNT, out.count)

New(header, body) == [Idle EXCEPT !.header = header, !.body = body]

\* Depends(get_api_key) raises: 403, and the body is never validated or
\* handed to predict (the slot keeps the header only)
Forbidden(r, header, body) ==
    /\ Accepting /\ Free(r)
    /\ get_api_key(header) = Raised403
    /\ req' = [req EXCEPT ![r] =
                 Respond(New(header, <<>>), 403,
                         Detail(Could_not_validate_credentials), <<>>)]
    /\ received' = received + 1
    /\ UNCHANGED <<loadVars, REQUEST_COUNT, REQUEST_LATENCY, health>>

\* the body fails PredictionRequest: 422, predict is not called
Unprocessable(r, header, body) ==
    /\ Accepting /\ Free(r)
    /\ get_api_key(header) # Raised403
    /\ ~Validates(body)
    /\ req' = [req EXCEPT ![r] =
                 Respond([New(header, body) EXCEPT !.steps = <<"auth">>], 422,
                         Detail("validation error"), <<>>)]
    /\ received' = received + 1
    /\ UNCHANGED <<loadVars, REQUEST_COUNT, REQUEST_LATENCY, health>>

\* predict(request) is called on a worker thread
Enter(r, header, body) ==
    /\ Accepting /\ Free(r)
    /\ get_api_key(header) # Raised403
    /\ Validates(body)
    /\ req' = [req EXCEPT ![r] =
                 [New(header, body) EXCEPT !.pc = "ready", !.steps = <<"auth">>,
                                           !.data = request_dict(body)]]
    /\ received' = received + 1
    /\ UNCHANGED <<loadVars, REQUEST_COUNT, REQUEST_LATENCY, health>>

\* mutant: a request that finds the globals unset loads them itself
ReadyCheck_lazy_load(r) ==
    /\ req[r].pc = "ready"
    /\ IF NotInitialized(model, encoders, scaler)
       THEN model' = disk /\ encoders' = disk /\ scaler' = disk
       ELSE UNCHANGED <<model, encoders, scaler>>
    /\ req' = [req EXCEPT ![r].pc = "encode",
                          ![r].readyAt = <<model', encoders', scaler'>>,
                          ![r].steps = @ \o <<"ready">>]
    /\ UNCHANGED <<disk, loadPc, loads, started, received,
                   REQUEST_COUNT, REQUEST_LATENCY, health>>

\* start_time = time.time(); the readiness test and its 503
ReadyCheck(r) ==
    /\ req[r].pc = "ready"
    /\ IF NotInitialized(model, encoders, scaler)
       THEN /\ req' = [req EXCEPT ![r] =
                         Respond(req[r], 503, Detail(Model_not_loaded), <<503>>)]
            /\ REQUEST_COUNT' = Bump(REQUEST_COUNT, <<503>>)
       ELSE /\ req' = [req EXCEPT ![r].pc = "encode",
                                  ![r].readyAt = <<model, encoders, scaler>>,
                                  ![r].steps = @ \o <<"ready">>]
            /\ UNCHANGED REQUEST_COUNT
    /\ UNCHANGED <<loadVars, received, REQUEST_LATENCY, health>>

\* data = request.dict(); df = pd.DataFrame([data]); the encoding loop
Encode(r) ==
    /\ req[r].pc = "encode"
    /\ LET data == req[r].data
           res  == IF encoders = None THEN [ok |-> FALSE]
                   ELSE EncodeLoop(EncodersOf(encoders), 1, data, data)
           rec  == [req[r] EXCEPT !.enc = encoders]
       IN  IF encoders = None
           THEN Raise(r, rec, LibraryError("'NoneType' object has no attribute 'items'"))
           ELSE IF res.ok
           THEN /\ req' = [req EXCEPT ![r] =
                             [rec EXCEPT !.pc = "scale", !.df = res.df,
                                         !.steps = @ \o <<"encode">>]]
                /\ UNCHANGED REQUEST_COUNT
           ELSE Raise(r, rec, res.exc)
    /\ UNCHANGED <<loadVars, received, REQUEST_LATENCY, health>>

\* df[num_cols] = scaler.transform(df[num_cols]); fault: transform raises
Scale(r, fault) ==
    /\ req[r].pc = "scale"
    /\ LET rec == [req[r] EXCEPT !.sc = scaler]
       IN  IF fault \/ scaler = None
           THEN Raise(r, rec, LibraryError("scaler.transform failed"))
           ELSE /\ req' = [req EXCEPT ![r] =
                             [rec EXCEPT !.pc = "predict",
                                         !.df = ScaleFrame(ScalerOf(scaler), req[r].df),
                                         !.steps = @ \o <<"scale">>]]
                /\ UNCHANGED REQUEST_COUNT
    /\ UNCHANGED <<loadVars, received, REQUEST_LATENCY, health>>

\* df = df[expected_cols]; prediction = model.predict(df); fault: predict raises
Predict(r, fault) ==
    /\ req[r].pc = "predict"
    /\ LET df  == Select(req[r].df, expected_cols)
           rec == [req[r] EXCEPT !.mdl = model, !.df = df, !.vec = Values(df)]
       IN  IF fault \/ model = None
           THEN Raise(r, rec, LibraryError("model.predict failed"))
           ELSE /\ req' = [req EXCEPT ![r] =
                             [rec EXCEPT !.pc = "record",
                                         !.score = model_predict(model, df),
                                         !.steps = @ \o <<"predict">>]]
                /\ UNCHANGED REQUEST_COUNT
    /\ UNCHANGED <<loadVars, received, REQUEST_LATENCY, health>>

\* the latency observation, the 200 count, and the return
Record(r) ==
    /\ req[r].pc = "record"
    /\ REQUEST_LATENCY' = REQUEST_LATENCY + 1
    /\ REQUEST_COUNT' = Bump(REQUEST_COUNT, <<200>>)
    /\ req' = [req EXCEPT ![r] =
                 Respond([req[r] EXCEPT !.observed = @ + 1], 200, NoDetail, <<200>>)]
    /\ UNCHANGED <<loadVars, received, health>>

\* GET /health
Health ==
    /\ started
    /\ health' = health_check(model)
    /\ UNCHANGED <<loadVars, req, received, REQUEST_COUNT, REQUEST_LATENCY>>

\* GET /metrics: generate_latest() reads the registry and changes nothing
Metrics ==
    /\ started
    /\ UNCHANGED vars

Load ==
    \/ \E ok \in BOOLEAN : LoadModel(ok)
    \/ \E ok \in BOOLEAN : LoadEncoders(ok)
    \/ \E ok \in BOOLEAN : LoadScaler(ok)

Predicts(S) ==
    \/ \E r \in S, h \in Headers, b \in Bodies : Forbidden(r, h, b)
    \/ \E r \in S, h \in Headers, b \in Bodies : Unprocessable(r, h, b)
    \/ \E r \in S, h \in Headers, b \in Bodies : Enter(r, h, b)
    \/ \E r \in S : ReadyCheck(r)
    \/ \E r \in S : Encode(r)
    \/ \E r \in S, fault \in BOOLEAN : Scale(r, fault)
    \/ \E r \in S, fault \in BOOLEAN : Predict(r, fault)
    \/ \E r \in S : Record(r)

Gets == Health \/ Metrics

\* The service as deployed: load_artifacts runs once, at startup, and requests
\* are served on MaxInFlight worker threads once it has returned.
Next == Load \/ Predicts(Slots) \/ Gets

Spec == Init /\ [][Next]_vars

\* load_artifacts called again while the service runs, after artifact set v has
\* been written to the three paths
Reload(v) ==
    /\ started
    /\ loadPc = "done"
    /\ loads < MaxLoads
    /\ disk' = v
    /\ loadPc' = "model"
    /\ loads' = loads + 1
    /\ UNCHANGED <<model, encoders, scaler, started, reqVars>>

\* The service with load_artifacts re-run as a reload, one request in flight.
NextReload == Load \/ Predicts({1}) \/ \E v \in Versions : Reload(v)

SpecReload == Init /\ [][NextReload]_vars

\* ================================================================ claims
Done(r) == req[r].pc = "done"

BundleLoaded == model # None /\ encoders # None /\ scaler # None

\* the Feature Schema of the specification
FeatureSchema ==
    <<"Age", "Gender", "Condition", "Drug_Name", "Dosage_mg",
      "Treatment_Duration_days", "Side_Effects">>

Categorical == {"Gender", "Condition", "Drug_Name", "Side_Effects"}

\* the label set of field f's encoder in artifact set v
LabelSet(v, f) == Range(Get(EncodersOf(v), f))

\* positions in the Feature Schema of the categorical fields whose value in
\* the request body is outside the encoder's label set
Offending(v, body) ==
    {i \in 1..Len(FeatureSchema) :
        /\ FeatureSchema[i] \in Categorical
        /\ Get(body, FeatureSchema[i])[2] \notin LabelSet(v, FeatureSchema[i])}

Min(S) == CHOOSE x \in S : \A y \in S : x <= y

\* a request that passed authentication, validation and the readiness test
Transforming(r) ==
    /\ req[r].pc # "idle"
    /\ Len(req[r].steps) >= 2
    /\ req[r].steps[2] = "ready"

\* C1: under the service as deployed, an authenticated request that passed the
\* readiness test and carries a categorical value outside its encoder's label
\* set ends with 400, the detail naming the first such field in Feature Schema
\* order and the value sent for it, and model.predict is never invoked for it.
C1_UnknownCategoryRejected ==
    \A r \in Slots :
        (Transforming(r) /\ req[r].pc \notin {"encode"}
            /\ Offending(encoders, req[r].body) # {})
        => LET first == FeatureSchema[Min(Offending(encoders, req[r].body))]
           IN  /\ Done(r)
               /\ req[r].status = 400
               /\ req[r].detail.col = first
               /\ req[r].detail.value = Get(req[r].body, first)
               /\ req[r].mdl = None
               /\ req[r].score = <<>>
               /\ "predict" \notin Range(req[r].steps)

\* a 400 for a request with two offending fields, the named one not the last
C1_Witness ==
    \E r \in Slots :
        /\ Done(r) /\ req[r].status = 400
        /\ Cardinality(Offending(encoders, req[r].body)) >= 2
        /\ req[r].detail.col = "Condition"

\* C2: a /predict request whose X-API-Key is absent or differs from API_KEY is
\* answered 403 at once: it is never in flight in the handler, and no readiness
\* test, encoding, scaling, prediction or metrics update is made for it.
C2_ForbiddenShortCircuits ==
    \A r \in Slots :
        (req[r].pc # "idle" /\ req[r].header # API_KEY)
        => /\ Done(r)
           /\ req[r].status = 403
           /\ req[r].steps = <<"error">>
           /\ req[r].readyAt = <<None, None, None>>
           /\ req[r].enc = None /\ req[r].sc = None /\ req[r].mdl = None
           /\ req[r].df = <<>> /\ req[r].vec = <<>>
           /\ req[r].incs = <<>> /\ req[r].observed = 0

\* a 403 for a request with no header, against a loaded bundle
C2_Witness ==
    \E r \in Slots :
        /\ BundleLoaded
        /\ Done(r) /\ req[r].status = 403 /\ req[r].header = NoHeader

\* C3 as claimed: while the bundle is not loaded every /predict request is
\* answered 503 (the globals no longer change once the service is serving).
C3_EveryRequest503 ==
    \A r \in Slots : (Done(r) /\ ~BundleLoaded) => req[r].status = 503

\* C3 amended: while the bundle is not loaded, every /predict request that
\* carries the API key and a body that passes PredictionRequest validation is
\* answered 503, whatever its field values, and nothing is encoded, scaled or
\* predicted for it.
C3_AuthenticatedValid503 ==
    \A r \in Slots :
        (req[r].pc \notin {"idle", "ready"} /\ ~BundleLoaded
            /\ req[r].header = API_KEY /\ Validates(req[r].body))
        => /\ Done(r)
           /\ req[r].status = 503
           /\ req[r].detail = Detail(Model_not_loaded)
           /\ req[r].enc = None /\ req[r].sc = None /\ req[r].mdl = None
           /\ req[r].steps = <<"auth", "error">>

\* a 503 while the model is loaded and the encoders are not
C3_Witness ==
    \E r \in Slots :
        /\ Done(r) /\ req[r].status = 503
        /\ model # None /\ encoders = None

\* C4: /health answers 200 exactly when model, encoders and scaler are all
\* loaded.
C4_HealthIffLoaded ==
    (started /\ loadPc = "done" /\ health # 0) => (health = 200 <=> BundleLoaded)

\* C5: every finished /predict request has made exactly one REQUEST_COUNT
\* increment, labelled with its status, and exactly one latency observation.
C5_OneCountOneLatency ==
    \A r \in Slots :
        Done(r) => (req[r].incs = <<req[r].status>> /\ req[r].observed = 1)

\* the artifact sets a request has read: at the readiness test, for encoding,
\* for scaling and for predicting
Used(r) ==
    (Range(req[r].readyAt) \cup {req[r].enc, req[r].sc, req[r].mdl}) \ {None}

Code(v, f, body) ==
    Num(Cardinality({l \in LabelSet(v, f) : l < Get(body, f)[2]}), 1)

\* the standardized value of the i-th numeric field f: (x - mean) / stddev
Standardized(v, i, f, body) ==
    Num(Get(body, f)[2] - ScalerOf(v).mean_[i], ScalerOf(v).scale_[i])

\* the Feature Vector of a body under encoders e and scaler s
FeatureVector(e, s, body) ==
    <<Standardized(s, 1, "Age", body), Code(e, "Gender", body),
      Code(e, "Condition", body), Code(e, "Drug_Name", body),
      Standardized(s, 2, "Dosage_mg", body),
      Standardized(s, 3, "Treatment_Duration_days", body),
      Code(e, "Side_Effects", body)>>

\* C7: a request that passed the readiness test and whose categorical values
\* are all in their encoders' label sets is never rejected as an unknown
\* category; the vector handed to model.predict is the 7-entry Feature Vector in
\* schema order (codes and standardized values); unless a library call raises,
\* the answer is 200 with the model's score of that vector; and two requests
\* with the same fields in different key orders get the same vector and score.
C7_VectorInSchemaOrder ==
    /\ \A r \in Slots :
        (Transforming(r) /\ Offending(encoders, req[r].body) = {})
        => LET fv == FeatureVector(encoders, scaler, req[r].body)
           IN  /\ req[r].status # 400
               /\ req[r].mdl # None => (req[r].vec = fv /\ Len(req[r].vec) = 7)
               /\ (Done(r) /\ req[r].raised = "")
                      => (req[r].status = 200 /\ req[r].score = <<"score", model, fv>>)
    /\ \A r1, r2 \in Slots :
        (req[r1].mdl # None /\ req[r2].mdl # None
            /\ Range(req[r1].body) = Range(req[r2].body))
        => /\ req[r1].vec = req[r2].vec
           /\ (req[r1].status = 200 /\ req[r2].status = 200)
                  => req[r1].score = req[r2].score

\* two answered requests with the same fields in different key orders
C7_Witness ==
    \E r1, r2 \in Slots :
        /\ req[r1].status = 200 /\ req[r2].status = 200
        /\ req[r1].body # req[r2].body
        /\ Range(req[r1].body) = Range(req[r2].body)

\* C8: a request that entered the handler ends in 200, 400, 500 or 503; an
\* exception other than the unknown-category HTTPException gives 500 with the
\* fixed detail 'Internal server error'; the unknown-category 400 stays a 400.
C8_FaultsMapped ==
    \A r \in Slots :
        Done(r) =>
            /\ req[r].status \in Statuses
            /\ req[r].raised # "" => req[r].status \in {400, 500}
            /\ req[r].raised = "Exception"
                   => (req[r].status = 500
                       /\ req[r].detail = Detail(Internal_server_error))
            /\ req[r].status = 500 => req[r].detail = Detail(Internal_server_error)
            /\ req[r].raised = "HTTPException"
                   => (req[r].status = 400
                       /\ req[r].detail.msg = "Unknown category for"
                       /\ req[r].detail.col \in Categorical)

\* one request answered 500 after a library fault, another 400
C8_Witness ==
    \E r1, r2 \in Slots :
        /\ Done(r1) /\ req[r1].raised = "Exception" /\ req[r1].status = 500
        /\ Done(r2) /\ req[r2].raised = "HTTPException" /\ req[r2].status = 400

StepOrder == <<"auth", "ready", "encode", "scale", "predict", "respond">>

IsPrefix(s, t) == Len(s) <= Len(t) /\ \A i \in 1..Len(s) : s[i] = t[i]

Front(s) == SubSeq(s, 1, Len(s) - 1)

Last(s) == s[Len(s)]

\* the steps taken for a request are an initial part of StepOrder, possibly
\* cut short by "error"; each step had its preconditions
StepsInOrder(r) ==
    LET st == req[r].steps
    IN  /\ IF st # <<>> /\ Last(st) = "error"
           THEN IsPrefix(Front(st), StepOrder) /\ Len(st) < Len(StepOrder)
           ELSE IsPrefix(st, StepOrder)
        /\ req[r].pc = "done" <=> (st # <<>> /\ Last(st) \in {"respond", "error"})
        /\ req[r].pc \in {"encode", "scale", "predict", "record"}
               => (req[r].header = API_KEY /\ None \notin Range(req[r].readyAt))
        /\ req[r].mdl # None
               => /\ req[r].header = API_KEY
                  /\ None \notin Range(req[r].readyAt)
                  /\ req[r].enc # None /\ req[r].sc # None
                  /\ \A i \in 1..Len(req[r].vec) : req[r].vec[i][1] = "num"
                  /\ IsPrefix(<<"auth", "ready", "encode", "scale">>, st)
        /\ (st # <<>> /\ Last(st) = "error")
               => /\ req[r].status \notin {0, 200}
                  /\ req[r].score = <<>>
                  /\ 200 \notin Range(req[r].incs)
                  /\ req[r].observed = 0
        /\ req[r].status = 200 => st = StepOrder

\* a finished request is not touched again: its slot changes only when the
\* next request is received
ErrorAbsorbing(r) ==
    Done(r) => (req'[r] = req[r] \/ received' = received + 1)

\* whatever is done for a request in flight takes it exactly one step further
Advances(r) ==
    (req[r].pc \notin {"idle", "done"} /\ req'[r] # req[r])
    => /\ Len(req'[r].steps) = Len(req[r].steps) + 1
       /\ IsPrefix(req[r].steps, req'[r].steps)

\* C9: each request takes the steps auth, ready, encode, scale, predict,
\* respond in that order without skipping one, model.predict only after all the
\* earlier ones; every step takes it one further towards its single terminal
\* state, and once it has ended (in Error or Responded) nothing more is done.
C9_StepsInOrder ==
    [][\A r \in Slots : StepsInOrder(r)' /\ ErrorAbsorbing(r) /\ Advances(r)]_vars

\* one request answered 200 and one that failed after encoding
C9_Witness ==
    \E r1, r2 \in Slots :
        /\ req[r1].status = 200 /\ req[r1].steps = StepOrder
        /\ Done(r2) /\ Last(req[r2].steps) = "error" /\ Len(req[r2].steps) >= 4

\* C10: once load_artifacts has returned, no step changes model, encoders or
\* scaler.
C10_BundleReadOnly ==
    [][loadPc = "done" => UNCHANGED <<model, encoders, scaler>>]_vars

\* requests of every kind have been served against a loaded bundle
C10_Witness ==
    /\ loadPc = "done" /\ BundleLoaded /\ health = 200
    /\ \E r1, r2 \in Slots :
        /\ req[r1].status = 200
        /\ Done(r2) /\ req[r2].status = 400

====
